---------------------------- MODULE Spec2Model ----------------------------
(***************************************************************************)
(* Windowed viewport cache with scroll-synchronised refresh.               *)
(*                                                                         *)
(*   MovingWindow   vuu-datatable/src/useDataSource.ts  (class)            *)
(*   useDataSource  vuu-datatable/src/useDataSource.ts  (hook)             *)
(*   useScroll      unnamed/part_000                    (hook)             *)
(*                                                                         *)
(* The specifications share the variables:                                 *)
(*   WindowSpec   the MovingWindow class driven through its public API     *)
(*   ScrollSpec   the scroll translator, geometry fixed per behaviour      *)
(*   Spec         the viewport controller (hook) owning one MovingWindow   *)
(*   LiveSpec     Spec plus weak fairness of the frame clock               *)
(***************************************************************************)
EXTENDS Integers, Sequences, FiniteSets, TLC

VARIABLES
    \* ---- MovingWindow fields
    data,           \* MovingWindow.data : JS array (1-based here), Hole = empty slot
    range,          \* MovingWindow.range : [from, to]
    rowCount,       \* MovingWindow.rowCount
    \* ---- useDataSource refs
    dataCurrent,    \* data.current : the materialized list
    hasUpdated,     \* hasUpdated.current : the dirty flag
    isMounted,      \* isMounted.current
    rafHandle,      \* rafHandle.current : TRUE = a frame callback is pending
    rangeRef,       \* rangeRef.current
    subscribed,     \* the source holds a subscription of this controller
    sourceRange,    \* range last communicated to the source
    rendered,       \* the list the hook returned at its last render
    \* ---- useScroll state
    geometry,       \* the hook's props: bufferCount, dataRowCount, rowHeight, visibleRowCount
    scrollTopRef,   \* scrollTopRef.current : the anchor (a JS number)
    firstRowIndex,  \* useState firstRowIndex (a JS number)
    tableScroll,    \* table.current.scrollLeft / scrollTop
    \* ---- history (not program state)
    lastCall,       \* WindowSpec, ScrollSpec: the call made by the last step
    frame           \* Spec: updates and publishes per frame

winVars    == <<data, range, rowCount>>
ctlVars    == <<dataCurrent, hasUpdated, isMounted, rafHandle, rangeRef,
                subscribed, sourceRange, rendered>>
scrollVars == <<geometry, scrollTopRef, firstRowIndex, tableScroll>>
vars       == <<winVars, ctlVars, scrollVars, lastCall, frame>>

-----------------------------------------------------------------------------
(* Bounds *)

MaxIndex     == 3   \* absolute row indices and range ends are 0..MaxIndex
MaxRenderIdx == 1   \* render-slot values are 0..MaxRenderIdx
MaxRowCount  == 4   \* dataset sizes are 0..MaxRowCount

-----------------------------------------------------------------------------
(* JS arrays with holes, rows *)

Hole == <<>>

\* metadataKeys.RENDER_IDX (0-based field position in a row)
RENDER_IDX == 1

Min(a, b) == IF a <= b THEN a ELSE b
Max(a, b) == IF a >= b THEN a ELSE b

\* const [index] = data
RowIndex(row) == row[1]
\* row[RENDER_IDX]
RowKey(row) == row[RENDER_IDX + 1]

Holes(n) == [i \in 1..n |-> Hole]

\* new Array(n)
NewArray(n) == Holes(n)

\* arr[i]  (0-based i; reading past the end yields undefined)
ArrayGet(arr, i) == IF i >= 0 /\ i < Len(arr) THEN arr[i + 1] ELSE Hole

\* arr[i] = v  (0-based i; writing past the end grows the array with holes)
ArraySet(arr, i, v) ==
    IF i < Len(arr) THEN [arr EXCEPT ![i + 1] = v]
    ELSE arr \o Holes(i - Len(arr)) \o <<v>>

\* arr.length = n, with n < arr.length
ArrayTruncate(arr, n) == SubSeq(arr, 1, n)

-----------------------------------------------------------------------------
(* WindowRange (vuu-utils) *)

WindowRange(from, to) == [from |-> from, to |-> to]

RangeIsWithin(r, index) == index >= r.from /\ index < r.to

\* the intersection of r with [from, to), <<0, 0>> when they do not meet
RangeOverlap(r, from, to) ==
    IF from >= r.to \/ to <= r.from
    THEN <<0, 0>>
    ELSE <<Max(from, r.from), Min(to, r.to)>>

\* getFullRange(range) with no buffer size: the range itself
GetFullRange(r) == r

-----------------------------------------------------------------------------
(* MovingWindow, as operators on a window value [data, range, rowCount] *)

Window(d, r, n) == [data |-> d, range |-> r, rowCount |-> n]

\* constructor({from, to})
WindowNew(r) == Window(NewArray(r.to - r.from), WindowRange(r.from, r.to), 0)

WinIsWithinRange(w, index) == RangeIsWithin(w.range, index)

WinGetAtIndex(w, index) ==
    IF RangeIsWithin(w.range, index) /\ ArrayGet(w.data, index - w.range.from) # Hole
    THEN ArrayGet(w.data, index - w.range.from)
    ELSE Hole

WinSetRowCount(w, n) ==
    [w EXCEPT !.data = IF n < Len(w.data) THEN ArrayTruncate(w.data, n) ELSE w.data,
              !.rowCount = n]

AddUnguarded(w, row) ==
    LET internalIndex == RowIndex(row) - w.range.from
    IN  IF internalIndex >= 0
        THEN [w EXCEPT !.data = ArraySet(w.data, internalIndex, row)]
        ELSE w

AddIfAbsent(w, row) ==
    IF WinIsWithinRange(w, RowIndex(row))
       /\ ArrayGet(w.data, RowIndex(row) - w.range.from) = Hole
    THEN [w EXCEPT !.data = ArraySet(w.data, RowIndex(row) - w.range.from, row)]
    ELSE w

WinAdd(w, row) ==
    IF WinIsWithinRange(w, RowIndex(row))
    THEN [w EXCEPT !.data = ArraySet(w.data, RowIndex(row) - w.range.from, row)]
    ELSE w

\* the copy loop of setRange: for (i = lo; i < hi; i++) newData[i - from] = getAtIndex(i)
RECURSIVE CopyOverlap(_, _, _, _, _)
CopyOverlap(w, newData, from, i, hi) ==
    IF i >= hi THEN newData
    ELSE LET row == WinGetAtIndex(w, i)
         IN  CopyOverlap(w,
                         IF row # Hole THEN ArraySet(newData, i - from, row) ELSE newData,
                         from, i + 1, hi)

SetRangeOldSize(w, from, to) ==
    IF from # w.range.from \/ to # w.range.to
    THEN LET ov == RangeOverlap(w.range, from, to)
         IN  [w EXCEPT !.data = CopyOverlap(w, NewArray(Len(w.data)), from, ov[1], ov[2]),
                       !.range = WindowRange(from, to)]
    ELSE w

SetRangeNoCopy(w, from, to) ==
    IF from # w.range.from \/ to # w.range.to
    THEN [w EXCEPT !.data = NewArray(to - from), !.range = WindowRange(from, to)]
    ELSE w

SetRangeNoShift(w, from, to) ==
    IF from # w.range.from \/ to # w.range.to
    THEN LET ov == RangeOverlap(w.range, from, to)
         IN  [w EXCEPT !.data = CopyOverlap(w, NewArray(to - from), w.range.from,
                                            ov[1], ov[2]),
                       !.range = WindowRange(from, to)]
    ELSE w

WinSetRange(w, from, to) ==
    IF from # w.range.from \/ to # w.range.to
    THEN LET ov == RangeOverlap(w.range, from, to)
         IN  [w EXCEPT !.data = CopyOverlap(w, NewArray(to - from), from, ov[1], ov[2]),
                       !.range = WindowRange(from, to)]
    ELSE w

TheWindow == Window(data, range, rowCount)

SetWindow(w) ==
    /\ data' = w.data
    /\ range' = w.range
    /\ rowCount' = w.rowCount


-----------------------------------------------------------------------------
(* Input sets *)

Indices == 0..MaxIndex
Rows    == {<<i, k>> : i \in Indices, k \in 0..MaxRenderIdx}
Ranges  == {r \in [from : Indices, to : Indices] : r.from <= r.to}
RowCounts == 0..MaxRowCount

\* lastCall: the operation, its arguments, and the window's range before it
NoCall == [op |-> "none", row |-> Hole, from |-> 0, to |-> 0, n |-> 0,
           was |-> [from |-> 0, to |-> 0]]
Call(op, row, from, to, n) ==
    [op |-> op, row |-> row, from |-> from, to |-> to, n |-> n, was |-> range]

\* frame: the update notifications handled since the last frame tick; whether
\* the last step was a frame tick, and then how many update notifications
\* preceded it since the tick before and how many publishes it made; whether
\* the last step handled a viewport-update with neither rows nor a size;
\* whether the last step re-ran the subscribe effect
NoFrame == [updates |-> 0, ticked |-> FALSE, tickUpdates |-> 0, tickPublishes |-> 0,
            neither |-> FALSE, resubscribed |-> FALSE]

-----------------------------------------------------------------------------
(* Values the parts not exercised by a specification rest at *)

CtlIdle ==
    /\ dataCurrent = <<>>
    /\ hasUpdated = FALSE
    /\ isMounted = FALSE
    /\ rafHandle = FALSE
    /\ rangeRef = WindowRange(0, 0)
    /\ subscribed = FALSE
    /\ sourceRange = WindowRange(0, 0)
    /\ rendered = <<>>
    /\ frame = NoFrame

-----------------------------------------------------------------------------
(* WindowSpec: the MovingWindow class through its public methods *)

WAdd(row) ==
    /\ SetWindow(WinAdd(TheWindow, row))
    /\ lastCall' = Call("add", row, 0, 0, 0)
    /\ UNCHANGED <<ctlVars, scrollVars, frame>>

WSetRange(from, to) ==
    /\ SetWindow(WinSetRange(TheWindow, from, to))
    /\ lastCall' = Call("setRange", Hole, from, to, 0)
    /\ UNCHANGED <<ctlVars, scrollVars, frame>>

WSetRowCount(n) ==
    /\ SetWindow(WinSetRowCount(TheWindow, n))
    /\ lastCall' = Call("setRowCount", Hole, 0, 0, n)
    /\ UNCHANGED <<ctlVars, scrollVars, frame>>

WindowNext ==
    \/ \E row \in Rows : WAdd(row)
    \/ \E r \in Ranges : WSetRange(r.from, r.to)
    \/ \E n \in RowCounts : WSetRowCount(n)


-----------------------------------------------------------------------------
(* JS numbers: the integers, NaN and the two infinities *)

Num(n) == [k |-> "num", v |-> n]
NaN    == [k |-> "nan", v |-> 0]
Inf(s) == [k |-> "inf", v |-> s]

IsNum(x) == x.k = "num"
IsNaN(x) == x.k = "nan"

JsNeg(x) == IF IsNaN(x) THEN NaN ELSE [x EXCEPT !.v = 0 - x.v]

JsAdd(x, y) ==
    CASE IsNaN(x) \/ IsNaN(y) -> NaN
      [] IsNum(x) /\ IsNum(y) -> Num(x.v + y.v)
      [] IsNum(x)             -> y
      [] IsNum(y)             -> x
      [] OTHER                -> IF x.v = y.v THEN x ELSE NaN

JsSub(x, y) == JsAdd(x, JsNeg(y))

JsMul(x, y) ==
    CASE IsNaN(x) \/ IsNaN(y) -> NaN
      [] IsNum(x) /\ IsNum(y) -> Num(x.v * y.v)
      [] x.v = 0 \/ y.v = 0   -> NaN
      [] OTHER                -> Inf(IF (x.v > 0) = (y.v > 0) THEN 1 ELSE -1)

\* x > y
JsGt(x, y) ==
    CASE IsNaN(x) \/ IsNaN(y) -> FALSE
      [] IsNum(x) /\ IsNum(y) -> x.v > y.v
      [] IsNum(x)             -> y.v < 0
      [] IsNum(y)             -> x.v > 0
      [] OTHER                -> x.v > y.v

\* x < y
JsLt(x, y) == JsGt(y, x)

\* x >= y, x <= y
JsGe(x, y) == JsGt(x, y) \/ (~IsNaN(x) /\ x = y)
JsLe(x, y) == JsGe(y, x)

\* Math.abs(x)
JsAbs(x) == IF IsNaN(x) THEN NaN ELSE [x EXCEPT !.v = IF x.v < 0 THEN 0 - x.v ELSE x.v]

\* Math.max(x, y)
JsMax(x, y) == IF IsNaN(x) \/ IsNaN(y) THEN NaN ELSE IF JsGt(y, x) THEN y ELSE x

\* Math.floor(x / d) for an integer d >= 0
JsFloorDiv(x, d) ==
    CASE IsNaN(x)  -> NaN
      [] ~IsNum(x) -> x
      [] d # 0     -> Num(x.v \div d)
      [] x.v > 0   -> Inf(1)
      [] x.v < 0   -> Inf(-1)
      [] OTHER     -> NaN


-----------------------------------------------------------------------------
(* useScroll *)

MaxBufferCount == 2   \* bufferCount is 0..MaxBufferCount
MaxRowHeight   == 2   \* rowHeight is 0..MaxRowHeight
MaxVisible     == 2   \* visibleRowCount is 0..MaxVisible
MaxDataRows    == 8   \* dataRowCount is 0..MaxDataRows
MaxScrollTop   == 16  \* scrollTop of an event is 0..MaxScrollTop
MaxScrollLeft  == 0   \* scrollLeft of an event is 0..MaxScrollLeft

Geometry(b, d, h, v) ==
    [bufferCount |-> b, dataRowCount |-> d, rowHeight |-> h, visibleRowCount |-> v]

\* the geometry of the documented scenarios, with the scroll positions they use
ExampleGeometry   == Geometry(5, 1000, 20, 10)
ExampleScrollTops == {0, 50, 99, 100, 101, 200, 250, 300, 1999, 2000, 2101}

Geometries ==
    {Geometry(b, d, h, v) : b \in 0..MaxBufferCount, d \in 0..MaxDataRows,
                            h \in 0..MaxRowHeight, v \in 0..MaxVisible}
    \cup {ExampleGeometry}

ScrollTops(g) == IF g = ExampleGeometry THEN ExampleScrollTops ELSE 0..MaxScrollTop

RenderedRowsCount(g) == g.visibleRowCount + 2 * g.bufferCount
BufferHeight(g)      == g.bufferCount * g.rowHeight

\* scrolledBy = scrollTop - scrollTopRef.current
ScrolledBy(anchor, scrollTop) == JsSub(Num(scrollTop), anchor)

IsForwards(anchor, scrollTop) == JsGt(ScrolledBy(anchor, scrollTop), Num(0))

\* Math.abs(scrolledBy) > bufferHeight || scrollTop < bufferHeight
CrossedEager(g, anchor, scrollTop) ==
    \/ ~JsLt(JsAbs(ScrolledBy(anchor, scrollTop)), Num(BufferHeight(g)))
    \/ scrollTop < BufferHeight(g)

Crossed(g, anchor, scrollTop) ==
    \/ JsGt(JsAbs(ScrolledBy(anchor, scrollTop)), Num(BufferHeight(g)))
    \/ scrollTop < BufferHeight(g)

\* Math.floor(scrollTop / bufferHeight) * bufferHeight
ForwardAnchorNoSnap(g, scrollTop) == Num(scrollTop)

ForwardAnchorByRow(g, scrollTop) ==
    JsMul(JsFloorDiv(Num(scrollTop), g.rowHeight), Num(g.rowHeight))

ForwardAnchor(g, scrollTop) ==
    JsMul(JsFloorDiv(Num(scrollTop), BufferHeight(g)), Num(BufferHeight(g)))

\* while (scrollTopRef.current - scrollTop > bufferHeight) scrollTopRef.current -= bufferHeight
BackwardAnchorOnce(g, anchor, scrollTop) ==
    IF JsGt(JsSub(anchor, Num(scrollTop)), Num(BufferHeight(g)))
    THEN JsSub(anchor, Num(BufferHeight(g)))
    ELSE anchor

RECURSIVE BackwardAnchor(_, _, _)
BackwardAnchor(g, anchor, scrollTop) ==
    IF JsGt(JsSub(anchor, Num(scrollTop)), Num(BufferHeight(g)))
    THEN BackwardAnchor(g, JsSub(anchor, Num(BufferHeight(g))), scrollTop)
    ELSE anchor

\* Math.max(0, Math.floor(scrollTopRef.current / rowHeight) - bufferCount), then the clamp
FirstRowUnclamped(g, anchor) ==
    JsMax(Num(0), JsSub(JsFloorDiv(anchor, g.rowHeight), Num(g.bufferCount)))

FirstRowNoBuffer(g, anchor) ==
    LET first == JsMax(Num(0), JsFloorDiv(anchor, g.rowHeight))
    IN  IF JsGt(JsAdd(first, Num(RenderedRowsCount(g))), Num(g.dataRowCount))
        THEN Num(g.dataRowCount - RenderedRowsCount(g))
        ELSE first

FirstRowFor(g, anchor) ==
    LET first == JsMax(Num(0), JsSub(JsFloorDiv(anchor, g.rowHeight), Num(g.bufferCount)))
    IN  IF JsGt(JsAdd(first, Num(RenderedRowsCount(g))), Num(g.dataRowCount))
        THEN Num(g.dataRowCount - RenderedRowsCount(g))
        ELSE first

\* the state part of handleScroll: the new anchor and firstRowIndex
ScrollResult(g, anchor, first, scrollTop) ==
    IF IsForwards(anchor, scrollTop) /\ Crossed(g, anchor, scrollTop)
    THEN LET a == ForwardAnchor(g, scrollTop)
         IN  [anchor |-> a, first |-> FirstRowFor(g, a)]
    ELSE IF ~IsForwards(anchor, scrollTop) /\ Crossed(g, anchor, scrollTop)
    THEN LET a == BackwardAnchor(g, anchor, scrollTop)
         IN  [anchor |-> a, first |-> FirstRowFor(g, a)]
    ELSE [anchor |-> anchor, first |-> first]

\* lastRowIndex = firstRowIndex + renderedRowsCount
LastRowIndex == JsAdd(firstRowIndex, Num(RenderedRowsCount(geometry)))

ScrollIdle ==
    /\ geometry = Geometry(0, 0, 0, 0)
    /\ scrollTopRef = Num(0)
    /\ firstRowIndex = Num(0)
    /\ tableScroll = [left |-> 0, top |-> 0]

HandleScroll(scrollLeft, scrollTop) ==
    LET res == ScrollResult(geometry, scrollTopRef, firstRowIndex, scrollTop)
    IN  /\ scrollTopRef' = res.anchor
        /\ firstRowIndex' = res.first
        /\ tableScroll' = [left |-> scrollLeft, top |-> scrollTop]
        /\ lastCall' = Call("scroll", Hole, 0, 0, 0)
        /\ UNCHANGED <<geometry, winVars, ctlVars, frame>>

ScrollInit ==
    /\ geometry \in Geometries
    /\ scrollTopRef = Num(0)
    /\ firstRowIndex = Num(0)
    /\ tableScroll = [left |-> 0, top |-> 0]
    /\ data = <<>> /\ range = WindowRange(0, 0) /\ rowCount = 0
    /\ CtlIdle
    /\ lastCall = NoCall

ScrollNext ==
    \E scrollLeft \in 0..MaxScrollLeft, scrollTop \in ScrollTops(geometry) :
        HandleScroll(scrollLeft, scrollTop)

ScrollSpec == ScrollInit /\ [][ScrollNext]_vars

WindowInit ==
    /\ \E r \in Ranges : data = WindowNew(GetFullRange(r)).data
                         /\ range = WindowNew(GetFullRange(r)).range
                         /\ rowCount = WindowNew(GetFullRange(r)).rowCount
    /\ CtlIdle
    /\ ScrollIdle
    /\ lastCall = NoCall

WindowSpec == WindowInit /\ [][WindowNext]_vars


-----------------------------------------------------------------------------
(* Properties of the MovingWindow (WindowSpec) *)

Populated(i) == i \in 1..Len(data) /\ data[i] # Hole

\* C1 as stated: in every state the buffer's length equals range.to - range.from.
\* setRowCount(n) with n below the length truncates the buffer and leaves the
\* range alone, so this fails.
C1_LengthEqualsRange == Len(data) = range.to - range.from

\* C1, amended: the buffer's length never exceeds range.to - range.from, and it
\* equals range.to - range.from right after construction.
C1_LengthWithinRange ==
    /\ Len(data) <= range.to - range.from
    /\ lastCall.op = "none" => Len(data) = range.to - range.from

\* setRowCount has truncated the buffer below the width of the range
C1_Witness ==
    /\ lastCall.op = "setRowCount"
    /\ lastCall.n < range.to - range.from
    /\ Len(data) = lastCall.n

\* C2: a step that changes the range (setRange to another range) keeps, for
\* every absolute index in both the old and the new range, what getAtIndex
\* returns there, and getAtIndex reports absent at every other index.
C2_OverlapPreserved ==
    [][range' # range =>
        \A i \in Indices :
            IF RangeIsWithin(range, i) /\ RangeIsWithin(range', i)
            THEN WinGetAtIndex(TheWindow', i) = WinGetAtIndex(TheWindow, i)
            ELSE WinGetAtIndex(TheWindow', i) = Hole]_vars

\* setRange moved [0, 2) to [1, 3): row 1 survived at slot 0, slot 1 is a hole
C2_Witness ==
    /\ lastCall.op = "setRange"
    /\ lastCall.was = WindowRange(0, 2)
    /\ range = WindowRange(1, 3)
    /\ Populated(1) /\ RowIndex(data[1]) = 1
    /\ ~Populated(2)

\* C3: an add whose row index lies outside [range.from, range.to) leaves the
\* buffer (contents and length), the range and rowCount unchanged.
C3_OutOfRangeAddNoOp ==
    [][(lastCall'.op = "add" /\ ~RangeIsWithin(range, RowIndex(lastCall'.row)))
        => UNCHANGED winVars]_vars

\* an out-of-range add has just run on a window that holds a row
C3_Witness ==
    /\ lastCall.op = "add"
    /\ ~RangeIsWithin(range, RowIndex(lastCall.row))
    /\ RowIndex(lastCall.row) >= range.to
    /\ \E i \in 1..Len(data) : Populated(i)

\* C13: add is a last-write-wins upsert: after add(row), getAtIndex returns row
\* at row's index when that index is in range, and what it returned before at
\* every other index (so across a run of adds each index shows the row added
\* for it last); an add that repeats the add before it changes nothing.
C13_LastWriteWins ==
    [][lastCall'.op = "add" =>
        /\ \A i \in Indices :
              WinGetAtIndex(TheWindow', i) =
                  IF i = RowIndex(lastCall'.row) /\ RangeIsWithin(range, i)
                  THEN lastCall'.row
                  ELSE WinGetAtIndex(TheWindow, i)
        /\ (lastCall.op = "add" /\ lastCall.row = lastCall'.row)
              => UNCHANGED winVars]_vars

\* an in-range add has just run on a window that starts above 0 and holds a
\* row at another index as well
C13_Witness ==
    /\ lastCall.op = "add"
    /\ range.from > 0
    /\ RowKey(lastCall.row) = 1
    /\ WinGetAtIndex(TheWindow, RowIndex(lastCall.row)) = lastCall.row
    /\ \E i \in Indices : /\ i # RowIndex(lastCall.row)
                           /\ WinGetAtIndex(TheWindow, i) # Hole

\* C14: every populated buffer slot i (0-based) holds a row whose index field
\* equals range.from + i.
C14_SlotIndex ==
    \A i \in 1..Len(data) :
        data[i] # Hole => RowIndex(data[i]) = range.from + (i - 1)

\* setRange has moved the start of the range and a kept row sits in slot 1
C14_Witness ==
    /\ lastCall.op = "setRange"
    /\ lastCall.was.from # range.from
    /\ range.from > 0
    /\ Populated(2)

\* C19: immediately after setRowCount(n) no populated slot holds a row whose
\* absolute index is >= n.  setRowCount compares n with the buffer's length,
\* not with absolute indices, so a window that starts above 0 keeps such rows.
C19_NoRowBeyondRowCount ==
    lastCall.op = "setRowCount" =>
        \A i \in 1..Len(data) : data[i] # Hole => RowIndex(data[i]) < lastCall.n


-----------------------------------------------------------------------------
(* Properties of the scroll translator (ScrollSpec) *)

bufferHeight      == BufferHeight(geometry)
renderedRowsCount == RenderedRowsCount(geometry)

\* C4 as stated: for all non-negative parameters and after any scroll events,
\* firstRowIndex >= 0 and lastRowIndex <= dataRowCount.  A dataset shorter
\* than one render window breaks it (already before the first event).
C4_RenderRangeWithinDataset ==
    /\ JsGe(firstRowIndex, Num(0))
    /\ JsLe(LastRowIndex, Num(geometry.dataRowCount))

\* C4, amended: firstRowIndex is a number except after a forward re-range with
\* bufferHeight = 0 (where it is NaN); whenever it is a number,
\* firstRowIndex >= min(0, dataRowCount - renderedRowsCount) and
\* lastRowIndex <= max(dataRowCount, renderedRowsCount).
C4_RenderRangeBounds ==
    /\ ~IsNum(firstRowIndex) => IsNaN(firstRowIndex) /\ bufferHeight = 0
    /\ IsNum(firstRowIndex) =>
         /\ firstRowIndex.v >= Min(0, geometry.dataRowCount - renderedRowsCount)
         /\ firstRowIndex.v + renderedRowsCount
               <= Max(geometry.dataRowCount, renderedRowsCount)

\* a scroll event has clamped firstRowIndex below zero
C4_Witness ==
    /\ tableScroll.top > 0
    /\ IsNum(firstRowIndex) /\ firstRowIndex.v < 0
    /\ LastRowIndex = Num(geometry.dataRowCount)

\* C5: when dataRowCount >= renderedRowsCount, after any scroll events with
\* scrollTop >= 0, firstRowIndex >= 0 and
\* firstRowIndex + renderedRowsCount <= dataRowCount.
C5_ClampCorrect ==
    geometry.dataRowCount >= renderedRowsCount =>
        /\ JsGe(firstRowIndex, Num(0))
        /\ JsLe(JsAdd(firstRowIndex, Num(renderedRowsCount)), Num(geometry.dataRowCount))

\* row r intersects the viewport [scrollTop, scrollTop + visibleRowCount * rowHeight)
RowVisible(r) ==
    /\ r * geometry.rowHeight < tableScroll.top + geometry.visibleRowCount * geometry.rowHeight
    /\ (r + 1) * geometry.rowHeight > tableScroll.top

\* C6: with rowHeight > 0, bufferCount > 0, dataRowCount >= renderedRowsCount
\* and the scroll position in [0, (dataRowCount - visibleRowCount) * rowHeight],
\* every row that intersects the viewport lies in [firstRowIndex, lastRowIndex).
C6_VisibleRowsRendered ==
    (/\ geometry.rowHeight > 0
     /\ geometry.bufferCount > 0
     /\ geometry.dataRowCount >= renderedRowsCount
     /\ tableScroll.top <= (geometry.dataRowCount - geometry.visibleRowCount) * geometry.rowHeight)
    => /\ IsNum(firstRowIndex)
       /\ \A r \in 0..geometry.dataRowCount - 1 :
            RowVisible(r) => /\ firstRowIndex.v <= r
                             /\ r < firstRowIndex.v + renderedRowsCount

\* a re-range has moved the render range off row 0 and rows are visible
C6_Witness ==
    /\ geometry.rowHeight > 0
    /\ geometry.bufferCount > 0
    /\ geometry.visibleRowCount > 0
    /\ geometry.dataRowCount >= renderedRowsCount
    /\ tableScroll.top <= (geometry.dataRowCount - geometry.visibleRowCount) * geometry.rowHeight
    /\ IsNum(firstRowIndex) /\ firstRowIndex.v > 0
    /\ \E r \in 0..geometry.dataRowCount - 1 : RowVisible(r)

\* C7: an event with |scrollTop - anchor| <= bufferHeight and
\* scrollTop >= bufferHeight leaves firstRowIndex and the anchor unchanged.
C7_Hysteresis ==
    [][(/\ JsLe(JsAbs(JsSub(Num(tableScroll'.top), scrollTopRef)), Num(bufferHeight))
        /\ tableScroll'.top >= bufferHeight
        /\ lastCall'.op = "scroll")
       => /\ firstRowIndex' = firstRowIndex
          /\ scrollTopRef' = scrollTopRef]_vars

\* the last event sat exactly one buffer height past the anchor and was absorbed
C7_Witness ==
    /\ bufferHeight > 0
    /\ IsNum(scrollTopRef) /\ scrollTopRef.v > 0
    /\ tableScroll.top = scrollTopRef.v + bufferHeight

\* C8: a forward event that triggers a re-range (bufferHeight > 0) sets the
\* anchor to floor(scrollTop / bufferHeight) * bufferHeight and firstRowIndex
\* to max(0, floor(anchor / rowHeight) - bufferCount), or to
\* dataRowCount - renderedRowsCount when that plus renderedRowsCount exceeds
\* dataRowCount; with rowHeight 20, bufferCount 5, visibleRowCount 10,
\* dataRowCount 1000 and anchor 0, scrollTop 250 gives anchor 200 and
\* firstRowIndex 5, scrollTop 2000 gives firstRowIndex 95, lastRowIndex 115.
C8_ForwardSnap ==
    [][/\ (/\ bufferHeight > 0
           /\ lastCall'.op = "scroll"
           /\ IsNum(scrollTopRef)
           /\ tableScroll'.top > scrollTopRef.v
           /\ \/ tableScroll'.top - scrollTopRef.v > bufferHeight
              \/ tableScroll'.top < bufferHeight)
          => LET a == (tableScroll'.top \div bufferHeight) * bufferHeight
                 f == Max(0, (a \div geometry.rowHeight) - geometry.bufferCount)
             IN  /\ scrollTopRef' = Num(a)
                 /\ firstRowIndex' =
                      Num(IF f + renderedRowsCount > geometry.dataRowCount
                          THEN geometry.dataRowCount - renderedRowsCount
                          ELSE f)
       /\ (geometry = ExampleGeometry /\ scrollTopRef = Num(0) /\ tableScroll'.top = 250)
          => scrollTopRef' = Num(200) /\ firstRowIndex' = Num(5)
       /\ (geometry = ExampleGeometry /\ scrollTopRef = Num(0) /\ tableScroll'.top = 2000)
          => firstRowIndex' = Num(95) /\ LastRowIndex' = Num(115)]_vars

\* the documented scenario: the event at 250 snapped the anchor to 200
C8_Witness ==
    /\ geometry = ExampleGeometry
    /\ tableScroll.top = 250
    /\ scrollTopRef = Num(200)
    /\ firstRowIndex = Num(5)

\* C15: with bufferHeight = 0 (bufferCount = 0 or rowHeight = 0) every scroll
\* event leaves a defined (numeric) anchor and firstRowIndex, and every event
\* is translated from its own scrollTop: with no snapping the anchor follows
\* the event's scrollTop.  The forward branch divides by bufferHeight: NaN.
C15_DegenerateErrorFree ==
    [][(bufferHeight = 0 /\ lastCall'.op = "scroll")
        => /\ IsNum(scrollTopRef')
           /\ IsNum(firstRowIndex')
           /\ scrollTopRef' = Num(tableScroll'.top)]_vars

\* ceil(a / b) for b > 0
CeilDiv(a, b) == 0 - ((0 - a) \div b)

\* the event of this step is a backward (non-forward) one that triggers a
\* re-range, with bufferHeight > 0
BackwardTrigger ==
    /\ bufferHeight > 0
    /\ lastCall'.op = "scroll"
    /\ IsNum(scrollTopRef)
    /\ tableScroll'.top <= scrollTopRef.v
    /\ \/ scrollTopRef.v - tableScroll'.top > bufferHeight
       \/ tableScroll'.top < bufferHeight

\* C16 as stated: a backward event that triggers a re-range leaves the anchor
\* at anchor - bufferHeight * ceil((anchor - scrollTop - bufferHeight) / bufferHeight).
\* At scrollTop = anchor the quotient is -1 and the formula moves the anchor
\* up by bufferHeight, while the loop does not run.
C16_BackwardClosedForm ==
    [][BackwardTrigger =>
        scrollTopRef' =
            Num(scrollTopRef.v - bufferHeight *
                CeilDiv(scrollTopRef.v - tableScroll'.top - bufferHeight, bufferHeight))]_vars

\* C16, amended: a backward event that triggers a re-range leaves the anchor at
\* anchor - bufferHeight * max(0, ceil((anchor - scrollTop - bufferHeight) / bufferHeight)).
C16_BackwardClampedForm ==
    [][BackwardTrigger =>
        scrollTopRef' =
            Num(scrollTopRef.v - bufferHeight *
                Max(0, CeilDiv(scrollTopRef.v - tableScroll'.top - bufferHeight,
                               bufferHeight)))]_vars

\* the documented geometry: a backward event at scrollTop 50 (below
\* bufferHeight = 100, so it always triggers) has left the anchor at 100
C16_Witness ==
    /\ geometry = ExampleGeometry
    /\ tableScroll.top = 50
    /\ scrollTopRef = Num(100)

\* C20: with bufferHeight > 0, after every scroll event the anchor is a
\* non-negative multiple of bufferHeight and |scrollTop - anchor| <= bufferHeight.
C20_AnchorInvariant ==
    bufferHeight > 0 =>
        /\ IsNum(scrollTopRef)
        /\ scrollTopRef.v >= 0
        /\ scrollTopRef.v % bufferHeight = 0
        /\ tableScroll.top - scrollTopRef.v <= bufferHeight
        /\ scrollTopRef.v - tableScroll.top <= bufferHeight

\* the anchor sits at least two buffer heights up and the last event was
\* exactly one buffer height below it
C20_Witness ==
    /\ lastCall.op = "scroll"
    /\ bufferHeight > 1
    /\ IsNum(scrollTopRef)
    /\ scrollTopRef.v >= 2 * bufferHeight
    /\ tableScroll.top = scrollTopRef.v - bufferHeight


-----------------------------------------------------------------------------
(* useDataSource: the viewport controller *)

MaxCtlIndex == 2   \* controller runs: row indices and range ends are 0..MaxCtlIndex
MaxRows     == 2   \* rows carried by one viewport-update
MaxUpdates  == 2   \* update notifications handled between two frame ticks
MaxSizedRows == 1  \* rows carried by a viewport-update that also carries a size

CtlIndices == 0..MaxCtlIndex
CtlRows    == {<<i, k>> : i \in CtlIndices, k \in 0..MaxRenderIdx}
CtlRanges  == {r \in [from : CtlIndices, to : CtlIndices] : r.from <= r.to}
CtlSizes   == 0..MaxCtlIndex

RECURSIVE SeqsUpTo(_, _)
SeqsUpTo(S, n) ==
    IF n = 0 THEN {<<>>}
    ELSE LET shorter == SeqsUpTo(S, n - 1)
         IN  shorter \cup {Append(q, x) : q \in shorter, x \in S}

RowBatches == SeqsUpTo(CtlRows, MaxRows)
SizedRowBatches == SeqsUpTo(CtlRows, MaxSizedRows)

\* arr.filter(x => x is a row)
Compact(arr) == SelectSeq(arr, LAMBDA x : x # Hole)

\* byKey(row1, row2) = row1[RENDER_IDX] - row2[RENDER_IDX]
ByKey(row1, row2) == RowKey(row1) - RowKey(row2)

\* stable insertion of row into a list sorted with ByKey
RECURSIVE InsertByKey(_, _)
InsertByKey(sorted, row) ==
    IF sorted = <<>> THEN <<row>>
    ELSE IF ByKey(sorted[Len(sorted)], row) <= 0 THEN Append(sorted, row)
    ELSE Append(InsertByKey(SubSeq(sorted, 1, Len(sorted) - 1), row), sorted[Len(sorted)])

RECURSIVE SortRows(_)
SortRows(rows) ==
    IF rows = <<>> THEN <<>>
    ELSE InsertByKey(SortRows(SubSeq(rows, 1, Len(rows) - 1)), rows[Len(rows)])

\* arr.slice().sort(byKey): the rows in ByKey order (stable), empty slots last
SliceSort(arr) ==
    LET rows == Compact(arr)
    IN  SortRows(rows) \o Holes(Len(arr) - Len(rows))

\* the refs a notification touches
Refs(w, list, dirty) == [win |-> w, dataCurrent |-> list, hasUpdated |-> dirty]

\* for (const row of updates) dataWindow.add(row)
RECURSIVE AddAll(_, _)
AddAll(w, updates) ==
    IF updates = <<>> THEN w
    ELSE AddAll(WinAdd(w, Head(updates)), Tail(updates))

SetDataStale(c, updates) ==
    Refs(AddAll(c.win, updates), SliceSort(c.win.data), TRUE)

SetData(c, updates) ==
    LET w == AddAll(c.win, updates)
    IN  Refs(w, SliceSort(w.data), TRUE)

Subscribed == [type |-> "subscribed", hasSize |-> FALSE, size |-> 0,
               hasRows |-> FALSE, rows |-> <<>>]
ViewportUpdate(hasSize, size, hasRows, rows) ==
    [type |-> "viewport-update", hasSize |-> hasSize, size |-> size,
     hasRows |-> hasRows, rows |-> rows]
ConfigTypes == {"aggregate", "filter", "groupBy", "sort"}
Config(type) == [type |-> type, hasSize |-> FALSE, size |-> 0,
                 hasRows |-> FALSE, rows |-> <<>>]

IsConfigMessage(message) == message.type \in ConfigTypes

HandlerAlwaysRefreshes(c, message) ==
    IF message.type = "subscribed" THEN c
    ELSE IF message.type = "viewport-update"
    THEN LET c1 == IF message.hasSize
                   THEN [c EXCEPT !.win = WinSetRowCount(c.win, message.size)]
                   ELSE c
         IN  IF message.hasRows THEN SetData(c1, message.rows)
             ELSE Refs(c1.win, SliceSort(c1.win.data), TRUE)
    ELSE c

\* datasourceMessageHandler(message), the refs after it.  onSubscribed,
\* onSizeChange and onConfigChange are calls into collaborators that hold no
\* state of the hook.
DatasourceMessageHandler(c, message) ==
    IF message.type = "subscribed" THEN c
    ELSE IF message.type = "viewport-update"
    THEN LET c1 == IF message.hasSize
                   THEN [c EXCEPT !.win = WinSetRowCount(c.win, message.size)]
                   ELSE c
         IN  IF message.hasRows THEN SetData(c1, message.rows)
             ELSE IF message.hasSize
             THEN Refs(c1.win, SliceSort(c1.win.data), TRUE)
             ELSE c1
    ELSE IF IsConfigMessage(message) THEN c
    ELSE c

\* a notification that sets the dirty flag: a viewport-update with rows or a size
IsUpdate(message) ==
    message.type = "viewport-update" /\ (message.hasRows \/ message.hasSize)

\* a viewport-update that carries neither rows nor a numeric size
CarriesNeither(message) ==
    message.type = "viewport-update" /\ ~message.hasRows /\ ~message.hasSize

TheRefs == Refs(TheWindow, dataCurrent, hasUpdated)

Notify(message) ==
    LET c == DatasourceMessageHandler(TheRefs, message)
    IN  /\ IsUpdate(message) => frame.updates < MaxUpdates
        /\ SetWindow(c.win)
        /\ dataCurrent' = c.dataCurrent
        /\ hasUpdated' = c.hasUpdated
        /\ frame' = [NoFrame EXCEPT
                        !.updates = frame.updates + IF IsUpdate(message) THEN 1 ELSE 0,
                        !.neither = CarriesNeither(message)]
        /\ UNCHANGED <<isMounted, rafHandle, rangeRef, subscribed, sourceRange,
                       rendered, scrollVars, lastCall>>

\* The source calls the handler it was given at subscribe; unsubscribe() is
\* fire-and-forget, so a notification already under way can still arrive
\* after it.
NotifySubscribed == Notify(Subscribed)

NotifyViewportUpdate(message) == Notify(message)

\* {size?, rows?}: an absent field is carried as 0 / <<>> with its flag off
ViewportUpdates ==
    {ViewportUpdate(FALSE, 0, FALSE, <<>>)}
    \cup {ViewportUpdate(TRUE, n, FALSE, <<>>) : n \in CtlSizes}
    \cup {ViewportUpdate(FALSE, 0, TRUE, rows) : rows \in RowBatches}
    \cup {ViewportUpdate(TRUE, n, TRUE, rows) : n \in CtlSizes, rows \in SizedRowBatches}

NotifyConfig(type) == Notify(Config(type))

\* refreshIfUpdated(): whether it publishes, the dirty flag and the frame
\* callback after it
RefreshKeepDirty(mounted, dirty) ==
    [publish |-> mounted /\ dirty, dirty |-> dirty, pending |-> mounted]

RefreshResult(mounted, dirty) ==
    IF mounted
    THEN [publish |-> dirty, dirty |-> FALSE, pending |-> TRUE]
    ELSE [publish |-> FALSE, dirty |-> dirty, pending |-> FALSE]

\* the frame clock fires the pending callback; forceUpdate({}) re-renders the
\* hook, which returns data.current
RefreshIfUpdated ==
    LET res == RefreshResult(isMounted, hasUpdated)
    IN  /\ rafHandle
        /\ rendered' = IF res.publish THEN dataCurrent ELSE rendered
        /\ hasUpdated' = res.dirty
        /\ rafHandle' = res.pending
        /\ frame' = [NoFrame EXCEPT !.ticked = TRUE, !.tickUpdates = frame.updates,
                                    !.tickPublishes = IF res.publish THEN 1 ELSE 0]
        /\ UNCHANGED <<winVars, dataCurrent, isMounted, rangeRef, subscribed,
                       sourceRange, scrollVars, lastCall>>

\* setRange(from, to), called by the rendering surface while it is mounted
SetRange(from, to) ==
    /\ isMounted
    /\ rangeRef' = WindowRange(from, to)
    /\ sourceRange' = WindowRange(from, to)
    /\ SetWindow(WinSetRange(TheWindow, from, to))
    /\ frame' = [NoFrame EXCEPT !.updates = frame.updates]
    /\ UNCHANGED <<dataCurrent, hasUpdated, isMounted, rafHandle, subscribed,
                   rendered, scrollVars, lastCall>>

\* the cleanup of the unmount effect: cancelAnimationFrame, isMounted = false
CleanupKeepsFrame(pending) == [rafHandle |-> pending, isMounted |-> FALSE]

UnmountCleanup(pending) == [rafHandle |-> FALSE, isMounted |-> FALSE]

\* the subscribe effect: dataSource.subscribe({range: rangeRef.current}, handler)
SubscribeEffect(ref) == [subscribed |-> TRUE, sourceRange |-> ref]

\* its cleanup: dataSource.unsubscribe(), on the source the effect subscribed to
SubscribeCleanup == [subscribed |-> FALSE]

\* unmount: the cleanups of the effects (cancel the frame callback, clear
\* isMounted, dataSource.unsubscribe())
Unmount ==
    /\ isMounted
    /\ rafHandle' = UnmountCleanup(rafHandle).rafHandle
    /\ isMounted' = UnmountCleanup(rafHandle).isMounted
    /\ subscribed' = SubscribeCleanup.subscribed
    /\ frame' = [NoFrame EXCEPT !.updates = frame.updates]
    /\ UNCHANGED <<winVars, dataCurrent, hasUpdated, rangeRef, sourceRange,
                   rendered, scrollVars, lastCall>>

\* the dataSource prop (or the handler) changes while mounted: the subscribe
\* effect's cleanup runs for the old source, then the effect for the new one
ChangeSource ==
    /\ isMounted
    /\ subscribed' = SubscribeEffect(rangeRef).subscribed
    /\ sourceRange' = SubscribeEffect(rangeRef).sourceRange
    /\ frame' = [NoFrame EXCEPT !.updates = frame.updates, !.resubscribed = TRUE]
    /\ UNCHANGED <<winVars, dataCurrent, hasUpdated, isMounted, rafHandle, rangeRef,
                   rendered, scrollVars, lastCall>>

\* the hook after its first render and its mount effects, for a range prop
Init ==
    /\ \E r \in CtlRanges : /\ data = WindowNew(GetFullRange(r)).data
                            /\ range = WindowNew(GetFullRange(r)).range
                            /\ rowCount = WindowNew(GetFullRange(r)).rowCount
    /\ dataCurrent = <<>>
    /\ hasUpdated = FALSE
    /\ isMounted = TRUE
    /\ rafHandle = TRUE
    /\ rangeRef = WindowRange(0, 0)
    /\ subscribed = TRUE
    /\ sourceRange = WindowRange(0, 0)
    /\ rendered = <<>>
    /\ frame = NoFrame
    /\ ScrollIdle
    /\ lastCall = NoCall

Next ==
    \/ NotifySubscribed
    \/ \E message \in ViewportUpdates : NotifyViewportUpdate(message)
    \/ \E type \in ConfigTypes : NotifyConfig(type)
    \/ RefreshIfUpdated
    \/ \E r \in CtlRanges : SetRange(r.from, r.to)
    \/ Unmount
    \/ ChangeSource

Spec == Init /\ [][Next]_vars

\* the frame clock keeps firing while a callback is pending
LiveSpec == Spec /\ WF_vars(RefreshIfUpdated)

-----------------------------------------------------------------------------
(* Properties of the viewport controller (Spec, LiveSpec) *)

\* the rows of an array, as a bag (slot order forgotten)
RowBag(arr) ==
    [row \in {arr[i] : i \in 1..Len(arr)} \ {Hole} |->
        Cardinality({i \in 1..Len(arr) : arr[i] = row})]

\* list holds exactly the rows of arr, in render-slot order, empty slots last
Materializes(list, arr) ==
    /\ Len(list) = Len(arr)
    /\ RowBag(list) = RowBag(arr)
    /\ \A i, j \in 1..Len(list) :
         i < j => /\ list[i] = Hole => list[j] = Hole
                  /\ (list[i] # Hole /\ list[j] # Hole) => RowKey(list[i]) <= RowKey(list[j])

\* a frame tick that follows N >= 1 update notifications publishes exactly
\* once, publishes the current materialized list and clears the dirty flag; a
\* tick that follows none publishes nothing
C9_TickPublishesOnce ==
    frame.ticked =>
        /\ frame.tickUpdates >= 1 =>
             /\ frame.tickPublishes = 1
             /\ ~hasUpdated
             /\ rendered = dataCurrent
        /\ frame.tickUpdates = 0 => frame.tickPublishes = 0

\* every update notification leaves the materialized list holding the
\* window's rows after it (all earlier updates included) and sets the flag
C9_UpdateMaterializes ==
    [][frame'.updates = frame.updates + 1
        => hasUpdated' /\ Materializes(dataCurrent', data')]_vars

\* while mounted, a set dirty flag leads to a publishing tick
C9_EventuallyPublished ==
    (isMounted /\ hasUpdated) ~> (~isMounted \/ (frame.ticked /\ frame.tickPublishes = 1))

\* C9: while the controller is mounted, for N >= 1 update notifications
\* (rows or size) handled between two frame ticks the next tick performs
\* exactly one publish and clears the dirty flag, the published list reflects
\* the net effect of all N updates, a tick with no update since the previous
\* one performs no publish, and under a fair frame clock every update is
\* eventually published.
C9_SingleRefreshPerFrame ==
    /\ []C9_TickPublishesOnce
    /\ C9_UpdateMaterializes
    /\ C9_EventuallyPublished

\* one tick has published the net effect of two updates: two rows, reordered
\* by render slot
C9_Witness ==
    /\ frame.ticked
    /\ frame.tickUpdates >= 2
    /\ frame.tickPublishes = 1
    /\ Len(rendered) = 2
    /\ rendered[1] # Hole /\ rendered[2] # Hole
    /\ RowIndex(rendered[1]) > RowIndex(rendered[2])

\* C10: once the controller has been torn down, a viewport-update that still
\* reaches the handler leaves the window, the materialized list and the dirty
\* flag unchanged.  (After teardown notifications are the only steps left.)
C10_LateNotificationsIgnored ==
    [][~isMounted => UNCHANGED <<winVars, dataCurrent, hasUpdated>>]_vars

\* C11 as stated: on teardown (the controller is disposed, or the source
\* changes) the controller unsubscribes and cancels the pending frame-clock
\* callback, and after disposal no frame-clock callback is pending and no
\* publish happens.  A source change leaves the frame-clock callback pending.
C11_TeardownStopsLoop ==
    [][/\ ((isMounted /\ ~isMounted') \/ frame'.resubscribed) => ~rafHandle'
       /\ (isMounted /\ ~isMounted') => ~subscribed'
       /\ ~isMounted => (~rafHandle' /\ rendered' = rendered)]_vars

\* C11, amended: disposal unsubscribes and cancels the pending frame-clock
\* callback, and from then on the controller stays disposed, no callback is
\* pending, no tick runs and nothing is published; a source change
\* unsubscribes and subscribes again with the recorded range, and leaves the
\* frame-clock callback as it was.
C11_DisposalStopsLoop ==
    [][/\ (isMounted /\ ~isMounted') => (~rafHandle' /\ ~subscribed')
       /\ ~isMounted => /\ ~isMounted' /\ ~rafHandle' /\ ~subscribed'
                        /\ ~frame'.ticked
                        /\ rendered' = rendered
       /\ frame'.resubscribed => /\ isMounted' /\ subscribed'
                                 /\ sourceRange' = rangeRef
                                 /\ rafHandle' = rafHandle]_vars

\* after disposal an update has arrived and set the dirty flag, and the list it
\* materialized is not published
C11_Witness ==
    /\ ~isMounted /\ ~rafHandle /\ ~subscribed
    /\ hasUpdated
    /\ rendered # dataCurrent

C17_SourceAgreesWithWindow == subscribed => sourceRange = range

\* C18: every row of the list exposed at a publish has an absolute index inside
\* the window's current range and is the row the window holds at that index.
C18_PublishedRowsInWindow ==
    (frame.ticked /\ frame.tickPublishes = 1) =>
        \A i \in 1..Len(rendered) :
            rendered[i] # Hole =>
                /\ RangeIsWithin(range, RowIndex(rendered[i]))
                /\ WinGetAtIndex(TheWindow, RowIndex(rendered[i])) = rendered[i]

=============================================================================
